---- MODULE Spec2Model ----
(***************************************************************************)
(* Model of dev_runner.py: the watch / build / restart loop of the         *)
(* PowerUserMail developer runner.  One action per statement group of      *)
(* main() and run_app(); the file tree, the build tool, the application    *)
(* instances and the operator's interrupt are the environment.             *)
(***************************************************************************)
EXTENDS Integers, Sequences, FiniteSets, TLC

VARIABLES pc, inTry, exit_status, last_mtime, current_mtime, current_process,
          proc, termed, orphan, binary, build_ok, fs, dirty, fresh, mid_build, quiet, steps, out

vars == <<pc, inTry, exit_status, last_mtime, current_mtime, current_process,
          proc, termed, orphan, binary, build_ok, fs, dirty, fresh, mid_build, quiet, steps, out>>

\* ---------------------------------------------------------------- bounds
\* Latest modification time a file can carry.
MaxTime == 2
\* Number of time values before the epoch a file can carry.
PreEpoch == 1

Times == (0 - PreEpoch)..MaxTime

\* ------------------------------------------------------- the source tree
\* File names are sequences of characters, so that str.endswith is computed.
Swift == <<".", "s", "w", "i", "f", "t">>
Entitlements == <<".", "e", "n", "t", "i", "t", "l", "e", "m", "e", "n", "t", "s">>
Plist == <<".", "p", "l", "i", "s", "t">>

ASwift == <<"A">> \o Swift
InfoPlist == <<"I">> \o Plist
AppEntitlements == <<"P">> \o Entitlements
NotesTxt == <<"n", ".", "t", "x", "t">>
BareSwift == <<"s", "w", "i", "f", "t">>

\* The order in which os.walk lists the files of SOURCE_DIR.
WalkOrder == <<NotesTxt, ASwift, BareSwift, InfoPlist, AppEntitlements>>

TreeFiles == {WalkOrder[i] : i \in 1..Len(WalkOrder)}

\* The files the developer edits while the loop runs.
Edited == {ASwift, NotesTxt}

Absent == [kind |-> "absent", mtime |-> 0]
Broken == [kind |-> "broken", mtime |-> 0]
FileAt(t) == [kind |-> "file", mtime |-> t]

Entries == {Absent, Broken} \cup {FileAt(t) : t \in Times}

EmptyTree == [f \in TreeFiles |-> Absent]

\* str.endswith
EndsWith(s, suffix) ==
    /\ Len(s) >= Len(suffix)
    /\ SubSeq(s, Len(s) - Len(suffix) + 1, Len(s)) = suffix

IsWatchedPlistMissed(f) == EndsWith(f, Swift) \/ EndsWith(f, Entitlements)

IsWatched(f) == EndsWith(f, Swift) \/ EndsWith(f, Entitlements) \/ EndsWith(f, Plist)

\* The loop body of get_max_mtime from the i-th listed file on.
RECURSIVE ScanFrom(_, _, _)
ScanFrom(tree, i, max_mtime) ==
    IF i > Len(WalkOrder) THEN max_mtime
    ELSE LET e == tree[WalkOrder[i]] IN
         IF e.kind = "absent" \/ ~IsWatched(WalkOrder[i])
         THEN ScanFrom(tree, i + 1, max_mtime)
         ELSE IF e.kind = "broken"
         THEN ScanFrom(tree, i + 1, max_mtime)
         ELSE IF e.mtime > max_mtime
         THEN ScanFrom(tree, i + 1, e.mtime)
         ELSE ScanFrom(tree, i + 1, max_mtime)

GetMaxMtime(tree) == ScanFrom(tree, 1, 0)

\* current_mtime before the first poll assigns it; no scan returns it.
Unbound == 0 - 1

\* ------------------------------------------------------------------ Init
Init ==
    /\ pc = "init"
    /\ inTry = FALSE
    /\ exit_status = "none"
    /\ last_mtime = 0
    /\ current_mtime = Unbound
    /\ current_process = 0
    /\ proc = <<>>
    /\ termed = {}
    /\ orphan = FALSE
    /\ binary = FALSE
    /\ build_ok = FALSE
    /\ fs = EmptyTree
    /\ dirty = FALSE
    /\ fresh = FALSE
    /\ mid_build = FALSE
    /\ quiet = FALSE
    /\ steps = <<>>
    /\ out = "none"

\* ------------------------------------------------------------------ main
\* main(): the banner and the initial scan.
InitialScan ==
    /\ pc = "init"
    /\ quiet' = FALSE
    /\ last_mtime' = GetMaxMtime(fs)
    /\ dirty' = FALSE
    /\ out' = "Watching"
    /\ pc' = "build"
    /\ UNCHANGED <<steps, mid_build, inTry, exit_status, current_mtime, current_process, proc,
                   termed, orphan, binary, build_ok, fs, fresh>>

RunAppEntryLaunch == "ra_launch"

\* run_app() starts at the check of the previous handle.
RunAppEntry == "ra_stop"

AfterBuildAlwaysRun(ok) == RunAppEntry

\* if build(): run_app()
AfterBuild(ok) == IF ok THEN RunAppEntry ELSE "sleep"

\* build(): xcodebuild runs to completion and its exit code decides; a
\* successful build may or may not leave a binary at APP_PATH.
Build ==
    /\ pc = "build"
    /\ steps' = <<>>
    /\ \E ok \in BOOLEAN :
          /\ build_ok' = ok
          /\ out' = IF ok THEN "BuildSucceeded" ELSE "BuildFailed"
          /\ \E produced \in BOOLEAN : binary' = (binary \/ (ok /\ produced))
          /\ pc' = AfterBuild(ok)
          /\ inTry' = IF AfterBuild(ok) = "sleep" THEN TRUE ELSE inTry
          /\ fresh' = IF AfterBuild(ok) = "sleep" THEN TRUE ELSE fresh
    /\ UNCHANGED <<quiet, mid_build, exit_status, last_mtime, current_mtime, current_process,
                   proc, termed, orphan, fs, dirty>>

\* --------------------------------------------------------------- run_app
NoProcs == <<>>

Alive(p) == {i \in DOMAIN p : p[i] = "alive"}

\* if current_process: current_process.terminate()
StopPrevious ==
    /\ pc = "ra_stop"
    /\ IF current_process # 0
       THEN /\ out' = "Stopping"
            /\ termed' = termed \cup {current_process}
            /\ steps' = Append(steps, "terminate")
            /\ pc' = "ra_wait"
       ELSE /\ pc' = "ra_sweep"
            /\ UNCHANGED <<out, termed, steps>>
    /\ UNCHANGED <<quiet, mid_build, inTry, exit_status, last_mtime, current_mtime,
                   current_process, proc, orphan, binary, build_ok, fs,
                   dirty, fresh>>

\* current_process.wait(timeout=1): returns if the instance has exited,
\* raises TimeoutExpired if it is still alive when the second is over.
WaitPrevious ==
    /\ pc = "ra_wait"
    /\ IF proc[current_process] = "alive"
       THEN /\ out' = "ForceKilling"
            /\ pc' = "ra_kill"
       ELSE /\ pc' = "ra_sweep"
            /\ UNCHANGED out
    /\ UNCHANGED <<quiet, steps, mid_build, inTry, exit_status, last_mtime, current_mtime,
                   current_process, proc, termed, orphan, binary, build_ok,
                   fs, dirty, fresh>>

KillLeavesAlive(p, h) == p

\* Popen.kill(): SIGKILL to the tracked instance.
Kill(p, h) == [p EXCEPT ![h] = "dead"]

ForceKill ==
    /\ pc = "ra_kill"
    /\ steps' = Append(steps, "kill")
    /\ proc' = Kill(proc, current_process)
    /\ pc' = "ra_sweep"
    /\ UNCHANGED <<quiet, mid_build, inTry, exit_status, last_mtime, current_mtime,
                   current_process, termed, orphan, binary, build_ok, fs,
                   dirty, fresh, out>>

\* killall -9 PowerUserMail: every instance with that name, tracked or not.
Killall(p) == [i \in DOMAIN p |-> "dead"]

KillallOrphanMissed(o) == o

\* killall matches by name, so an instance the tool never tracked dies too.
KillallOrphan(o) == FALSE

Sweep ==
    /\ pc = "ra_sweep"
    /\ steps' = Append(steps, "sweep")
    /\ proc' = Killall(proc)
    /\ orphan' = KillallOrphan(orphan)
    /\ pc' = "ra_settle"
    /\ UNCHANGED <<quiet, mid_build, inTry, exit_status, last_mtime, current_mtime,
                   current_process, termed, binary, build_ok, fs, dirty,
                   fresh, out>>

\* time.sleep(0.5)
Settle ==
    /\ pc = "ra_settle"
    /\ steps' = Append(steps, "settle")
    /\ pc' = "ra_launch"
    /\ UNCHANGED <<quiet, mid_build, inTry, exit_status, last_mtime, current_mtime,
                   current_process, proc, termed, orphan, binary, build_ok,
                   fs, dirty, fresh, out>>

PathExistsAlways(b) == TRUE

\* os.path.exists(APP_PATH)
PathExists(b) == b

NewHandleKeepsFirst(old, pid) == IF old # 0 THEN old ELSE pid

\* current_process = subprocess.Popen([APP_PATH])
NewHandle(old, pid) == pid

HandleIfMissingCleared(old) == 0

\* the else branch of run_app assigns nothing
HandleIfMissing(old) == old

\* The existence check, then Popen or the "not found" message.  Popen of a
\* path that does not exist raises FileNotFoundError, which nothing catches.
Launch ==
    /\ pc = "ra_launch"
    /\ IF PathExists(binary)
       THEN IF binary
            THEN /\ proc' = Append(proc, "alive")
                 /\ current_process' = NewHandle(current_process, Len(proc) + 1)
                 /\ out' = "RunningApp"
                 /\ steps' = steps \o <<"check", "launch">>
                 /\ pc' = "ra_done"
                 /\ UNCHANGED exit_status
            ELSE /\ exit_status' = "FileNotFoundError"
                 /\ out' = "RunningApp"
                 /\ steps' = Append(steps, "check")
                 /\ pc' = "exited"
                 /\ UNCHANGED <<proc, current_process>>
       ELSE /\ current_process' = HandleIfMissing(current_process)
            /\ out' = "NotFound"
            /\ steps' = Append(steps, "check")
            /\ pc' = "ra_done"
            /\ UNCHANGED <<proc, exit_status>>
    /\ UNCHANGED <<quiet, mid_build, inTry, last_mtime, current_mtime, termed, orphan, binary,
                   build_ok, fs, dirty, fresh>>

\* run_app() returns to main, which enters (or stays in) the try block.
Return ==
    /\ pc = "ra_done"
    /\ steps' = <<>>
    /\ pc' = "sleep"
    /\ inTry' = TRUE
    /\ fresh' = TRUE
    /\ UNCHANGED <<quiet, mid_build, exit_status, last_mtime, current_mtime, current_process,
                   proc, termed, orphan, binary, build_ok, fs, dirty, out>>

\* ------------------------------------------------------------ watch loop
\* time.sleep(1)
Sleep ==
    /\ pc = "sleep"
    /\ pc' = "poll"
    /\ UNCHANGED <<quiet, steps, mid_build, inTry, exit_status, last_mtime, current_mtime,
                   current_process, proc, termed, orphan, binary, build_ok,
                   fs, dirty, fresh, out>>

ChangeDetectedOnAnyDifference(cur, last) == cur # last

ChangeDetectedOnEqual(cur, last) == cur >= last

\* if current_mtime > last_mtime
ChangeDetected(cur, last) == cur > last

NewBaselineKept(cur, last) == last

NewBaselineNow(cur, last) == MaxTime

\* last_mtime = current_mtime
NewBaseline(cur, last) == cur

KeptBaselineFollowsScan(cur, last) == cur

\* without a detected change nothing is assigned to last_mtime
KeptBaseline(cur, last) == last

\* current_mtime = get_max_mtime() and the comparison with the baseline.
Poll ==
    /\ pc = "poll"
    /\ quiet' = ~dirty
    /\ current_mtime' = GetMaxMtime(fs)
    /\ dirty' = FALSE
    /\ fresh' = FALSE
    /\ IF ChangeDetected(current_mtime', last_mtime)
       THEN /\ out' = "ChangeDetected"
            /\ last_mtime' = NewBaseline(current_mtime', last_mtime)
            /\ pc' = "debounce"
       ELSE /\ last_mtime' = KeptBaseline(current_mtime', last_mtime)
            /\ pc' = "sleep"
            /\ UNCHANGED out
    /\ UNCHANGED <<steps, mid_build, inTry, exit_status, current_process, proc, termed, orphan,
                   binary, build_ok, fs>>

\* time.sleep(0.5) before the rebuild
Debounce ==
    /\ pc = "debounce"
    /\ pc' = "build"
    /\ UNCHANGED <<quiet, steps, mid_build, inTry, exit_status, last_mtime, current_mtime,
                   current_process, proc, termed, orphan, binary, build_ok,
                   fs, dirty, fresh, out>>

\* Ctrl-C.  Inside the try block the handler terminates the tracked instance
\* and calls sys.exit(0); outside it KeyboardInterrupt is not caught.
Interrupt ==
    /\ pc # "exited"
    /\ pc' = "exited"
    /\ IF inTry
       THEN /\ out' = "Exiting"
            /\ termed' = IF current_process # 0
                         THEN termed \cup {current_process} ELSE termed
            /\ exit_status' = "exit0"
       ELSE /\ exit_status' = "KeyboardInterrupt"
            /\ UNCHANGED <<out, termed>>
    /\ UNCHANGED <<quiet, steps, mid_build, inTry, last_mtime, current_mtime, current_process, proc,
                   orphan, binary, build_ok, fs, dirty, fresh>>

\* ----------------------------------------------------------- environment
Running == pc # "exited"

RunAppLabels == {"ra_stop", "ra_wait", "ra_kill", "ra_sweep", "ra_settle",
                 "ra_launch", "ra_done"}

\* The positions of main between a build's start and run_app's return.
BuildPhase == {"build"} \cup RunAppLabels

\* A file of the tree is written (or created) with modification time t.
Touch ==
    /\ Running
    /\ \E f \in Edited, t \in Times : fs' = [fs EXCEPT ![f] = FileAt(t)]
    /\ dirty' = TRUE
    /\ mid_build' = (pc \in BuildPhase)
    /\ UNCHANGED <<quiet, steps, pc, inTry, exit_status, last_mtime, current_mtime,
                   current_process, proc, termed, orphan, binary, build_ok,
                   fresh, out>>

\* A file of the tree is deleted.
Remove ==
    /\ Running
    /\ \E f \in Edited : fs[f] # Absent /\ fs' = [fs EXCEPT ![f] = Absent]
    /\ dirty' = TRUE
    /\ mid_build' = (pc \in BuildPhase)
    /\ UNCHANGED <<quiet, steps, pc, inTry, exit_status, last_mtime, current_mtime,
                   current_process, proc, termed, orphan, binary, build_ok,
                   fresh, out>>

\* A file becomes one whose getmtime raises (a dangling link).
Break ==
    /\ Running
    /\ \E f \in Edited : fs[f] # Broken /\ fs' = [fs EXCEPT ![f] = Broken]
    /\ dirty' = TRUE
    /\ mid_build' = (pc \in BuildPhase)
    /\ UNCHANGED <<quiet, steps, pc, inTry, exit_status, last_mtime, current_mtime,
                   current_process, proc, termed, orphan, binary, build_ok,
                   fresh, out>>

\* A launched instance quits or crashes, by itself or after SIGTERM.
AppExits ==
    /\ Running
    /\ \E p \in Alive(proc) : proc' = [proc EXCEPT ![p] = "dead"]
    /\ UNCHANGED <<quiet, steps, mid_build, pc, inTry, exit_status, last_mtime, current_mtime,
                   current_process, termed, orphan, binary, build_ok, fs,
                   dirty, fresh, out>>

\* An instance the tool did not launch is started out of band.
OrphanAppears ==
    /\ Running
    /\ ~orphan
    /\ orphan' = TRUE
    /\ UNCHANGED <<quiet, steps, mid_build, pc, inTry, exit_status, last_mtime, current_mtime,
                   current_process, proc, termed, binary, build_ok, fs,
                   dirty, fresh, out>>

\* The build products are cleaned away.
RemoveBinary ==
    /\ Running
    /\ binary
    /\ binary' = FALSE
    /\ UNCHANGED <<quiet, steps, mid_build, pc, inTry, exit_status, last_mtime, current_mtime,
                   current_process, proc, termed, orphan, build_ok, fs,
                   dirty, fresh, out>>

Next ==
    \/ InitialScan
    \/ Build
    \/ StopPrevious
    \/ WaitPrevious
    \/ ForceKill
    \/ Sweep
    \/ Settle
    \/ Launch
    \/ Return
    \/ Sleep
    \/ Poll
    \/ Debounce
    \/ Interrupt
    \/ Touch
    \/ Remove
    \/ Break
    \/ AppExits
    \/ OrphanAppears
    \/ RemoveBinary

Spec == Init /\ [][Next]_vars

\* The steps of the tool's one thread, the interrupt aside.
Main ==
    \/ InitialScan
    \/ Build
    \/ StopPrevious
    \/ WaitPrevious
    \/ ForceKill
    \/ Sweep
    \/ Settle
    \/ Launch
    \/ Return
    \/ Sleep
    \/ Poll
    \/ Debounce

\* The thread keeps running: every sleep, wait and subprocess call returns
\* (each xcodebuild run is assumed to terminate).
FairSpec == Spec /\ WF_vars(Main)

\* ------------------------------------------------- get_max_mtime in isolation
\* Every tree over the listed files, scanned once by the initial scan.
ScanInit ==
    /\ pc = "init"
    /\ inTry = FALSE
    /\ exit_status = "none"
    /\ last_mtime = 0
    /\ current_mtime = Unbound
    /\ current_process = 0
    /\ proc = NoProcs
    /\ termed = {}
    /\ orphan = FALSE
    /\ binary = FALSE
    /\ build_ok = FALSE
    /\ fs \in [TreeFiles -> Entries]
    /\ dirty = FALSE
    /\ fresh = FALSE
    /\ mid_build = FALSE
    /\ quiet = FALSE
    /\ steps = <<>>
    /\ out = "none"

ScanNext == InitialScan

ScanSpec == ScanInit /\ [][ScanNext]_vars

TypeOK ==
    /\ pc \in {"init", "build", "ra_stop", "ra_wait", "ra_kill", "ra_sweep",
               "ra_settle", "ra_launch", "ra_done", "sleep", "poll",
               "debounce", "exited"}
    /\ inTry \in BOOLEAN
    /\ exit_status \in {"none", "exit0", "KeyboardInterrupt", "FileNotFoundError"}
    /\ last_mtime \in 0..MaxTime
    /\ current_mtime \in {Unbound} \cup 0..MaxTime
    /\ current_process \in 0..Len(proc)
    /\ \A i \in DOMAIN proc : proc[i] \in {"alive", "dead"}
    /\ termed \subseteq DOMAIN proc
    /\ orphan \in BOOLEAN /\ binary \in BOOLEAN /\ build_ok \in BOOLEAN
    /\ fs \in [TreeFiles -> Entries]
    /\ dirty \in BOOLEAN /\ fresh \in BOOLEAN /\ mid_build \in BOOLEAN
    /\ quiet \in BOOLEAN
    /\ \A i \in DOMAIN steps :
          steps[i] \in {"terminate", "kill", "sweep", "settle", "check", "launch"}

\* ================================================================ claims
Interrupted == exit_status \in {"exit0", "KeyboardInterrupt"}

\* C1: in every cycle a build that reports failure is followed by the watch
\* state directly: run_app is never entered after a failed build, and the
\* step that ends a failed build stops, sweeps and launches nothing.
C1_FailedBuildDoesNotRun ==
    /\ [](pc \in RunAppLabels => build_ok)
    /\ [][(pc = "build" /\ pc' \notin {"build", "exited"} /\ ~build_ok')
            => (pc' = "sleep"
                /\ UNCHANGED <<current_process, proc, termed, orphan>>)]_vars

\* A rebuild triggered by a change failed while the earlier instance runs.
C1_Witness ==
    /\ pc = "sleep" /\ fresh
    /\ out = "BuildFailed"
    /\ current_mtime # Unbound
    /\ current_process # 0
    /\ proc[current_process] = "alive"

\* C2: at every moment at most one launched instance is alive, and every
\* instance but the most recent one has been sent terminate and is dead.
C2_AtMostOneInstanceAlive ==
    /\ Cardinality(Alive(proc)) <= 1
    /\ \A p \in DOMAIN proc :
          p # Len(proc) => (p \in termed /\ proc[p] = "dead")

\* A restart happened: a second instance runs after the first was stopped.
C2_Witness ==
    /\ Len(proc) >= 2
    /\ proc[Len(proc)] = "alive"
    /\ current_process = Len(proc)

\* C3: when run_app has completed, the one handle refers to the most
\* recently launched instance (and is unset if none was ever launched).
C3_HandleIsLatestInstance ==
    pc = "ra_done" => current_process = Len(proc)

\* run_app completed a relaunch.
C3_Witness ==
    /\ pc = "ra_done"
    /\ out = "RunningApp"
    /\ Len(proc) >= 2
    /\ current_process = Len(proc)

\* C4 as stated: after a run_app that found no binary, no handle is set.
C4_NoHandleAfterMissingBinary ==
    (pc = "ra_done" /\ out = "NotFound") => current_process = 0

\* C4 amended: a run_app that finds no binary leaves the handle as it was;
\* a handle that existed still refers to the previous, stopped instance.
C4_HandleUnchangedAfterMissingBinary ==
    /\ [][(pc = "ra_launch" /\ ~binary /\ pc' = "ra_done")
            => current_process' = current_process]_vars
    /\ []((pc = "ra_done" /\ out = "NotFound" /\ current_process # 0)
            => (current_process = Len(proc)
                /\ current_process \in termed
                /\ proc[current_process] = "dead"))

\* run_app found no binary while a handle to an earlier instance existed.
C4_Witness ==
    /\ pc = "ra_done"
    /\ out = "NotFound"
    /\ current_process # 0

\* C5: with no binary at the existence check, run_app reports the error,
\* launches nothing, leaves the handle unset or unchanged and returns; main
\* then goes on to the watch state.
C5_MissingBinaryIsReported ==
    /\ [][(pc = "ra_launch" /\ ~binary /\ pc' # "ra_launch" /\ ~Interrupted')
            => (/\ pc' = "ra_done"
                /\ exit_status' = "none"
                /\ out' = "NotFound"
                /\ proc' = proc
                /\ current_process' \in {0, current_process})]_vars
    /\ [][(pc = "ra_done" /\ pc' # "ra_done" /\ ~Interrupted')
            => (pc' = "sleep" /\ exit_status' = "none")]_vars

\* The loop is watching again after a run_app that found no binary.
C5_Witness ==
    /\ pc = "poll"
    /\ fresh
    /\ out = "NotFound"
    /\ exit_status = "none"

\* C6: a poll triggers a rebuild exactly when the fresh scan strictly
\* exceeds the baseline; a scan equal to or below the baseline starts no
\* build and leaves the baseline as it was, and a build starts only from the
\* program start or from a detected change.
C6_RebuildIffScanExceedsBaseline ==
    /\ [][(pc = "poll" /\ pc' \notin {"poll", "exited"})
            => /\ (pc' = "debounce") <=> (GetMaxMtime(fs) > last_mtime)
               /\ GetMaxMtime(fs) <= last_mtime
                     => (pc' = "sleep" /\ last_mtime' = last_mtime)]_vars
    /\ [][(pc' = "build" /\ pc # "build") => pc \in {"init", "debounce"}]_vars

\* A poll scanned less than the baseline (a deletion) and the loop went on
\* watching with the baseline kept.
C6_Witness ==
    /\ pc = "sleep"
    /\ current_mtime # Unbound
    /\ current_mtime < last_mtime

\* C7: from the detection of a change until the next poll the baseline is
\* the detected scan value (it is set before the debounce delay and the
\* build), and a poll with no file modification since the previous scan
\* triggers no build, whether the build in between succeeded or failed.
C7_NoRetriggerWithoutModification ==
    /\ []((inTry /\ pc \in {"debounce"} \cup BuildPhase)
            => last_mtime = current_mtime)
    /\ [][(pc = "poll" /\ ~dirty /\ current_mtime # Unbound)
            => pc' # "debounce"]_vars

\* A rebuild of a running application failed, nothing was modified since,
\* and the following poll went back to watching.
C7_Witness ==
    /\ pc = "sleep" /\ ~fresh /\ ~dirty
    /\ out = "BuildFailed"
    /\ Len(proc) >= 1
    /\ current_mtime = last_mtime

\* C8: an interrupt received in any state of main ends the tool with status
\* 0 after a graceful terminate was sent to the supervised instance, if any.
C8_InterruptExitsCleanly ==
    (pc = "exited" /\ Interrupted)
        => (exit_status = "exit0"
            /\ (current_process # 0 => current_process \in termed))

\* The scan value the baseline was last set from: the detecting poll's scan,
\* or the initial scan while no poll has run.
Recorded == IF current_mtime = Unbound THEN last_mtime ELSE current_mtime

\* C9: when the first poll after a build (and restart) finds the maximum
\* modification time strictly above the scan value recorded before that
\* build, it detects the change and adopts the new value as the baseline.
C9_ChangeDuringBuildIsCaught ==
    [][(pc = "poll" /\ fresh /\ pc' \notin {"poll", "exited"}
          /\ GetMaxMtime(fs) > Recorded)
         => (pc' = "debounce" /\ last_mtime' = GetMaxMtime(fs))]_vars

\* A change was detected whose latest modification was made during a build
\* or restart.
C9_Witness ==
    /\ pc = "debounce"
    /\ mid_build
    /\ ~dirty
    /\ out = "ChangeDetected"

\* The names of the listed files that carry a watched extension.
WatchedNames == {ASwift, InfoPlist, AppEntitlements}

ReadableWatched(tree) == {f \in WatchedNames : tree[f].kind = "file"}

MaxOf(S) == CHOOSE x \in S : \A y \in S : y <= x

\* C10 as stated: the scan returns the maximum modification time over the
\* readable files with a watched extension, and 0 when there is none.
C10_ScanIsMaxOfWatched ==
    pc # "init"
       => last_mtime = IF ReadableWatched(fs) = {} THEN 0
                       ELSE MaxOf({fs[f].mtime : f \in ReadableWatched(fs)})

\* C10 amended: the scan returns the largest of 0 and the modification times
\* of the readable files with a watched extension.
C10_ScanIsMaxOfWatchedAndZero ==
    pc # "init"
       => last_mtime = MaxOf({0} \cup {fs[f].mtime : f \in ReadableWatched(fs)})

\* A scan over a tree with a newer file of another extension, a file whose
\* timestamp cannot be read, and a watched file that decides the result.
C10_Witness ==
    /\ pc # "init"
    /\ fs[NotesTxt] = FileAt(MaxTime)
    /\ fs[BareSwift] = FileAt(MaxTime)
    /\ fs[InfoPlist] = Broken
    /\ fs[AppEntitlements] = FileAt(0 - PreEpoch)
    /\ fs[ASwift].kind = "file"
    /\ 0 < fs[ASwift].mtime /\ fs[ASwift].mtime < MaxTime
    /\ last_mtime = fs[ASwift].mtime

\* The previous scan's result: the last poll's, or the initial scan's while
\* no poll has run.
PreviousScan == IF current_mtime = Unbound THEN last_mtime ELSE current_mtime

\* C11: a poll over a tree in which nothing was modified since the previous
\* scan (the initial one included) scans the same value as that scan and
\* raises no change signal.
C11_UnmodifiedTreeScansEqual ==
    [][(pc = "poll" /\ ~dirty /\ pc' \notin {"poll", "exited"})
         => (/\ current_mtime' = PreviousScan
             /\ pc' = "sleep"
             /\ last_mtime' = last_mtime)]_vars

\* A poll ran over a tree with a watched file in it that nobody had modified
\* since the scan before, and the loop is watching again.
C11_Witness ==
    /\ pc = "sleep"
    /\ quiet
    /\ fs[ASwift].kind = "file"
    /\ current_mtime = fs[ASwift].mtime
    /\ current_mtime > 0

\* C12: run_app with no handle set fails nowhere and goes on to the sweep;
\* the settle delay is reached only through the sweep, which leaves no
\* instance of the application alive, tracked or not.
C12_SweepOnEveryRunApp ==
    /\ [][(pc = "ra_stop" /\ current_process = 0
             /\ pc' # "ra_stop" /\ ~Interrupted')
            => (pc' = "ra_sweep" /\ exit_status' = "none")]_vars
    /\ [][(pc = "ra_sweep" /\ pc' # "ra_sweep" /\ ~Interrupted')
            => (/\ pc' = "ra_settle"
                /\ exit_status' = "none"
                /\ ~orphan'
                /\ Alive(proc') = {})]_vars
    /\ [](pc \in {"ra_settle", "ra_launch", "ra_done"}
            => \E i \in DOMAIN steps : steps[i] = "sweep")

\* The sweep ran in a run_app that found no handle set.
C12_Witness ==
    /\ pc = "ra_settle"
    /\ current_process = 0
    /\ steps = <<"sweep">>
    /\ ~orphan

\* C13: when the previous instance is still alive at the end of the grace
\* period, run_app force-kills it and goes on to the sweep; the timeout ends
\* neither run_app nor the tool.
C13_TimeoutEscalatesToKill ==
    /\ [][(pc = "ra_wait" /\ proc[current_process] = "alive"
             /\ pc' # "ra_wait" /\ ~Interrupted')
            => (pc' = "ra_kill" /\ exit_status' = "none")]_vars
    /\ [][(pc = "ra_kill" /\ pc' # "ra_kill" /\ ~Interrupted')
            => (/\ pc' = "ra_sweep"
                /\ exit_status' = "none"
                /\ proc'[current_process] = "dead")]_vars
    /\ []((pc = "ra_done" /\ \E i \in DOMAIN steps : steps[i] = "kill")
            => (/\ exit_status = "none"
                /\ \E i \in DOMAIN steps : steps[i] = "sweep"
                /\ \E i \in DOMAIN steps : steps[i] = "check"))

\* A restart that had to force-kill the previous instance launched the next.
C13_Witness ==
    /\ pc = "ra_done"
    /\ steps = <<"terminate", "kill", "sweep", "settle", "check", "launch">>
    /\ proc[current_process] = "alive"

Watching == pc \in {"sleep", "poll"}

\* C14: the tool ends only by an interrupt, and as long as none arrives the
\* loop comes back to the watch state after the initial scan, after every
\* build and after every run_app, and polls again and again.
C14_LoopNeverTerminates ==
    /\ [](pc = "exited" => Interrupted)
    /\ [](pc \notin {"sleep", "poll", "exited"} => <>(Watching \/ Interrupted))
    /\ []<>(pc = "poll" \/ Interrupted)

\* Polling again after a rebuild that failed, with no instance ever launched
\* (every earlier build failed or found no binary to run).
C14_Witness ==
    /\ pc = "poll"
    /\ exit_status = "none"
    /\ ~build_ok
    /\ out = "BuildFailed"
    /\ current_mtime # Unbound
    /\ Len(proc) = 0
    /\ current_mtime > 0

\* The place of a step in run_app's text.
StepRank(st) ==
    CASE st = "terminate" -> 1
      [] st = "kill" -> 2
      [] st = "sweep" -> 3
      [] st = "settle" -> 4
      [] st = "check" -> 5
      [] st = "launch" -> 6

Did(st) == \E i \in DOMAIN steps : steps[i] = st

\* C15: the steps of one run_app call happen in the order terminate, kill
\* (only after a terminate), sweep, settle, existence check, launch; a call
\* that has returned did sweep, settle and check, and a launch has the sweep
\* and the settle delay of the same call before it.
C15_RunAppStepOrder ==
    /\ \A i, j \in DOMAIN steps :
          i < j => StepRank(steps[i]) < StepRank(steps[j])
    /\ Did("kill") => Did("terminate")
    /\ Did("launch") => (Did("sweep") /\ Did("settle") /\ Did("check"))
    /\ pc = "ra_done" => (Did("sweep") /\ Did("settle") /\ Did("check"))
    /\ (pc \in RunAppLabels /\ current_process # 0 /\ ~Did("launch")
          /\ pc # "ra_stop") => Did("terminate")

\* A restart that terminated the previous instance gracefully, swept,
\* settled, checked and launched.
C15_Witness ==
    /\ pc = "ra_done"
    /\ steps = <<"terminate", "sweep", "settle", "check", "launch">>
    /\ Len(proc) >= 2

\* C16: the handle changes only in run_app's launch step; the baseline is
\* set by the initial scan and afterwards changes only in the step of the
\* loop that detects a change.
C16_HandleAndBaselineFrame ==
    /\ [][current_process' # current_process
            => (pc = "ra_launch" /\ pc' = "ra_done")]_vars
    /\ [][last_mtime' # last_mtime
            => \/ pc = "init" /\ pc' = "build"
               \/ pc = "poll" /\ pc' = "debounce"]_vars

\* The handle was replaced by a restart and the baseline moved with the
\* detected change, while an interrupt ended the tool with both left as
\* they were.
C16_Witness ==
    /\ pc = "exited"
    /\ exit_status = "exit0"
    /\ current_process >= 2
    /\ current_process \in termed
    /\ last_mtime = MaxTime
    /\ current_mtime < last_mtime
    /\ current_mtime # Unbound

Larger(a, b) == IF a >= b THEN a ELSE b

\* C17: the baseline never decreases; every poll leaves it at the larger of
\* its old value and the poll's scan (so it is the maximum of the initial
\* scan and all scans so far), and it is never below the latest scan.
C17_BaselineIsRunningMaximum ==
    /\ [][last_mtime' >= last_mtime]_vars
    /\ [][(pc = "init" /\ pc' = "build") => last_mtime' = GetMaxMtime(fs)]_vars
    /\ [][(pc = "poll" /\ pc' \notin {"poll", "exited"})
            => last_mtime' = Larger(last_mtime, GetMaxMtime(fs))]_vars
    /\ [](current_mtime # Unbound => last_mtime >= current_mtime)

\* After an earlier rise of the baseline a poll scanned a lower, non-zero
\* value and the baseline stayed.
C17_Witness ==
    /\ pc = "poll"
    /\ 0 < current_mtime
    /\ current_mtime < last_mtime
    /\ ~fresh

\* C18: an instance is launched only inside a run_app that a successful
\* build() has just entered; the loop leaves the watch state only through a
\* poll whose scan exceeds the baseline, whatever happens to the running
\* instance.
C18_LaunchOnlyAfterSuccessfulBuild ==
    /\ [][Len(proc') # Len(proc)
            => (pc = "ra_launch" /\ build_ok
                /\ Len(proc') = Len(proc) + 1)]_vars
    /\ [][(pc' \in RunAppLabels /\ pc \notin RunAppLabels)
            => (pc = "build" /\ build_ok' /\ pc' = "ra_stop")]_vars
    /\ [][(Watching /\ ~Watching' /\ ~Interrupted')
            => (pc = "poll" /\ pc' = "debounce"
                /\ GetMaxMtime(fs) > last_mtime)]_vars
    /\ [][(proc' # proc /\ Len(proc') = Len(proc) /\ pc \notin RunAppLabels)
            => pc' = pc]_vars

\* The launched instance has exited by itself and the loop polled on without
\* building or launching anything.
C18_Witness ==
    /\ pc = "poll"
    /\ ~fresh
    /\ out = "RunningApp"
    /\ Len(proc) = 1
    /\ proc[1] = "dead"
    /\ termed = {}

\* C19: while the latest build is a failed one the tool sends no signal,
\* sweeps nothing and leaves the handle alone; after a failed rebuild the
\* handle still refers to the latest launched instance, and an instance that
\* is alive then has never been sent terminate.
C19_FailedRebuildLeavesInstance ==
    /\ [][(~build_ok' /\ ~Interrupted')
            => (/\ termed' = termed
                /\ current_process' = current_process
                /\ (orphan => orphan')
                /\ (proc' # proc => pc' = pc))]_vars
    /\ []((Watching /\ out = "BuildFailed")
            => (current_process = Len(proc)
                /\ \A p \in Alive(proc) : p \notin termed))

\* A rebuild failed and the instance of the last successful build is still
\* running, tracked and unsignaled, while the loop polls.
C19_Witness ==
    /\ pc = "poll"
    /\ ~fresh
    /\ out = "BuildFailed"
    /\ ~build_ok
    /\ current_process # 0
    /\ proc[current_process] = "alive"
    /\ current_process \notin termed
====
